---- MODULE Spec2Model ----
(***************************************************************************)
(* The queueing daemon of the speak skill                                  *)
(* (claude/skills/speaking/src/speak/__main__.py): the worker process with *)
(* its listener, connection-handler, generator and player threads, the     *)
(* client-side submission path (send_to_queue, is_worker_running,          *)
(* start_worker, cleanup_worker) and the files they share (worker.pid,     *)
(* worker.sock, worker.lock).                                              *)
(*                                                                         *)
(* Every thread of control is a small program counter; one action is one   *)
(* step between two points where another thread or process can run.        *)
(*                                                                         *)
(* The three loops of the worker are "while not shutdown_event.is_set()"   *)
(* around a call that blocks for at most a second (accept, msg_queue.get,  *)
(* audio_buffer.get) and on a timeout goes round the loop.  The event is   *)
(* never cleared.  A thread that comes to the head of its loop when the    *)
(* event is set leaves the loop: that is part of the step that brought it  *)
(* there.  A thread that comes to the head of its loop when the event is   *)
(* clear is at "wait": it has not run the test yet, or it is blocked in    *)
(* the call, or the call has timed out and it is before the test again.    *)
(* From "wait" it takes an item when there is one (the test found the      *)
(* event clear and the call returned), or leaves the loop when the event   *)
(* has been set meanwhile (the test runs after the set).                   *)
(***************************************************************************)
EXTENDS Integers, Sequences, FiniteSets, TLC

(*************************** program constants *****************************)
QUEUE_TIMEOUT == 30
MAX_CONCURRENT_CONNECTIONS == 24
AUDIO_BUFFER_MAXSIZE == 3
max_retries == 3

(****************************** model bounds *******************************)
\* worker processes that can ever exist, clients running send_to_queue
MaxWorkers == 4
NClients == 2
\* connection ids (identified connections ever opened)
MaxConns == 5
\* pending connections per socket
MaxBacklog == 2
\* seconds that pass in one step of the clock
TickSeconds == 16
\* environment budgets of the daemon-only specifications
\* (connections ever opened, and open at the same time)
PipeConns == 2
PipeLive == 2
DeepConns == 4
DeepLive == 1
GateConns == 1
MaxSignals == 1
\* what a cold start may see: workers spawned, connections opened, workers
\* killed, receives that time out
ColdSpawns == 2
ColdConns == 3
RaceConns == 1
MaxKills == 1
MaxTimeouts == 1
\* connections ever opened, and open at the same time, where bodies of
\* every kind arrive and where synthesis and playback can fail
BodyConns == 2
BodyLive == 1
FaultConns == 3
FaultLive == 1
\* connections the clients may open to a daemon under load
BusyConns == 3

Workers == 1..MaxWorkers
Clients == 1..NClients
ConnIds == 1..MaxConns

VARIABLES
    pidFile,    \* worker.pid: 0 absent, -1 created but still empty, p: names worker p
    sockFile,   \* worker.sock: 0 absent, p: the socket worker p bound
    lock,       \* worker.lock: 0 free, c: flock held by client c
    w,          \* w[p]: the worker process p and its threads
    conns,      \* conns[k]: connection k, from connect to close
    cl,         \* cl[c]: client c inside send_to_queue
    env         \* what the environment may still do (budgets)

vars == <<pidFile, sockFile, lock, w, conns, cl, env>>

(****************************** pure helpers *******************************)
Range(s) == {s[i] : i \in 1..Len(s)}

\* position of x in s (0 when absent)
Pos(s, x) == IF x \in Range(s) THEN CHOOSE i \in 1..Len(s) : s[i] = x ELSE 0

\* the items of q that no sentinel (0) precedes
Ahead(q) == {q[i] : i \in {j \in 1..Len(q) : \A h \in 1..j : q[h] # 0}}

\* queue.Queue.put
QueuePut(q, x) == Append(q, x)

QueueGetLifo(q) == <<q[Len(q)], SubSeq(q, 1, Len(q) - 1)>>
\* queue.Queue.get on a queue that holds something: <<the item, what is left>>
QueueGet(q) == <<Head(q), Tail(q)>>

BufferUnbounded(buf) == TRUE
\* ThreadQueue(maxsize=3).put blocks while the buffer is full
BufferHasRoom(buf) == Len(buf) < AUDIO_BUFFER_MAXSIZE

\* time.time() - last_activity[0] > QUEUE_TIMEOUT
IdleExpired(idle) == idle > QUEUE_TIMEOUT

SlotAlwaysFree(sem) == TRUE
\* connection_semaphore.acquire(blocking=False)
SlotFree(sem) == sem > 0

\* os.kill(pid, 0) succeeds
Alive(p) == p \in Workers /\ w[p].proc = "run"

\* the kinds of request body a local process can send:
\*   msg     a JSON object with text, voice, speed, lang
\*   null    the JSON value null
\*   nonobj  valid JSON that is not such an object
\*   bad     text that is not JSON
\*   undecodable  bytes that are not UTF-8
\*   empty   no bytes at all
Kinds == {"msg", "null", "nonobj", "bad", "undecodable", "empty"}

\* json.loads(data.decode('utf-8')) succeeds
ParsesAsJson(kind) == kind \in {"msg", "null", "nonobj"}

\* what msg_queue.put(msg) puts for connection k: None for JSON null
QueueItem(k, kind) == IF kind = "null" THEN 0 ELSE k

(********************************* text ************************************)
\* a text is a sequence of characters, of which three kinds matter: a
\* newline, other whitespace, and anything else
NL == "\n"
SP == " "
Chars == {"x", SP, NL}
IsSpace(ch) == ch \in {SP, NL}

\* str.strip(): leading and trailing whitespace removed
RECURSIVE lstrip(_)
lstrip(s) == IF s # <<>> /\ IsSpace(Head(s)) THEN lstrip(Tail(s)) ELSE s

RECURSIVE rstrip(_)
rstrip(s) == IF s # <<>> /\ IsSpace(s[Len(s)])
             THEN rstrip(SubSeq(s, 1, Len(s) - 1)) ELSE s

strip(s) == rstrip(lstrip(s))

\* str.split('\n'): the pieces between newlines, empty pieces included
RECURSIVE split(_)
split(s) == IF NL \notin Range(s) THEN <<s>>
            ELSE LET i == CHOOSE j \in 1..Len(s) :
                             s[j] = NL /\ \A h \in 1..(j - 1) : s[h] # NL
                 IN  <<SubSeq(s, 1, i - 1)>> \o split(SubSeq(s, i + 1, Len(s)))

\* [line.strip() for line in stdin_content.split('\n') if line.strip()]
StrippedLines(content) ==
    LET lines == split(content)
        stripped == [i \in 1..Len(lines) |-> strip(lines[i])]
    IN  SelectSeq(stripped, LAMBDA line : line # <<>>)

\* main's texts: [args.text] when a text argument was given; otherwise from
\* stdin_content = sys.stdin.read().strip(), one text per line in queue
\* mode and the whole content in direct mode
Texts(queue, argText, stdin) ==
    IF argText # <<>> THEN <<argText>>
    ELSE IF queue THEN StrippedLines(strip(stdin))
    ELSE <<strip(stdin)>>

\* not texts or not any(texts)
EmptyText(texts) == texts = <<>> \/ \A i \in 1..Len(texts) : texts[i] = <<>>

(******************************* initial state *****************************)
NoConn == [st |-> "free", w |-> 0, cl |-> 0, kind |-> "msg", reply |-> "none",
           text |-> 0]

Unborn == [proc |-> "unborn", main |-> "none", sig |-> "none",
           lis |-> "none", bindFailed |-> FALSE, listening |-> FALSE,
           gen |-> "none", ply |-> "none",
           shutdown |-> FALSE, idle |-> 0,
           sem |-> MAX_CONCURRENT_CONNECTIONS, stalled |-> 0,
           backlog |-> <<>>, queue |-> <<>>, buffer |-> <<>>,
           genMsg |-> 0, plyMsg |-> 0,
           enq |-> <<>>, synth |-> <<>>, played |-> <<>>,
           idleFired |-> FALSE, drainQueue |-> {}, drainBuffer |-> {},
           playFailed |-> {}]

\* worker_process up to the three thread starts.  The generator and the
\* player find shutdown_event clear and their queues empty, and wait
worker_process == [Unborn EXCEPT !.proc = "run", !.main = "join",
                                 !.lis = "bind", !.gen = "wait", !.ply = "wait"]

\* a client process that runs main carries its command line and input:
\* queue is args.queue, argText is args.text (empty when absent), stdin is
\* what sys.stdin.read() returns; texts is main's list, idx the position of
\* the loop in it (0 outside main's loop), exit the exit status (-1 while
\* the process runs).  The text of a request travels with its
\* connection as the position text of the list.
\* a client: where it is, the return address of is_worker_running, the
\* round of the retry loop, the process it spawned, its connection, what
\* send_to_queue returned; stale is the killed daemon whose PID file and
\* socket file were on disk when the call began (0 when there was none).  Between the return of
\* start_worker and the connect that follows, started is what start_worker
\* returned ("worker" for the Process object, "None") and endpoint is what
\* its wait for the socket file ended with ("seen", "missing", or "none"
\* when it did not wait)
NoClient == [pc |-> "off", ret |-> "none", attempt |-> 0, spawned |-> 0,
             conn |-> 0, result |-> "none", stale |-> 0,
             started |-> "none", endpoint |-> "none",
             queue |-> FALSE, argText |-> <<>>, stdin |-> <<>>,
             texts |-> <<>>, idx |-> 0, exit |-> -1]

(***************************** connections *********************************)
Open(k) == conns[k].st \notin {"free", "closed"}
FreeConns == {k \in ConnIds : conns[k].st = "free"}
NextConn == CHOOSE k \in FreeConns : \A j \in FreeConns : k <= j
InFlight(p) == {k \in ConnIds : conns[k].w = p /\ conns[k].st \in {"recv", "stamp", "reply", "fin"}}

\* the socket at SOCKET_FILE accepts a connect(): it is bound by a live
\* process that has not closed it, and its backlog has room
Connectable(p) == /\ p # 0
                  /\ Alive(p)
                  /\ w[p].listening
                  /\ Len(w[p].backlog) < MaxBacklog

\* every connection of worker p that is still open is reset (the peer sees EOF)
ResetConns(p, S) == [k \in ConnIds |->
                       IF conns[k].w = p /\ Open(k) /\ conns[k].st \in S
                       THEN [conns[k] EXCEPT !.st = "closed"]
                       ELSE conns[k]]

(************************ worker: the listener thread ***********************)
\* a thread comes to the test of "while not shutdown_event.is_set()"
LoopHead(shutdown, exit) == IF shutdown THEN exit ELSE "wait"

\* shutdown_event.set(); the record keeps what was in the request queue and
\* in the playback buffer, ahead of any sentinel, when the event was first
\* set, until it is passed to synthesis and to playback
SetShutdown(r) ==
    IF r.shutdown THEN r
    ELSE [r EXCEPT !.shutdown = TRUE,
                   !.drainQueue = Ahead(r.queue),
                   !.drainBuffer = Ahead(r.buffer)]

\* sock.bind(str(SOCKET_FILE)); sock.listen(10); sock.settimeout(1.0)
socket_listener_bind(p) ==
    /\ Alive(p) /\ w[p].lis = "bind"
    /\ sockFile = 0
    /\ sockFile' = p
    /\ w' = [w EXCEPT ![p].lis = LoopHead(w[p].shutdown, "close"),
                      ![p].listening = TRUE]
    /\ UNCHANGED <<pidFile, lock, conns, cl, env>>

\* bind raises OSError (the path exists): the exception leaves the function
\* through the finally block; no except clause of socket_listener catches it
socket_listener_bind_fails(p) ==
    /\ Alive(p) /\ w[p].lis = "bind"
    /\ sockFile # 0
    /\ w' = [w EXCEPT ![p].lis = "unlink", ![p].bindFailed = TRUE]
    /\ UNCHANGED <<pidFile, sockFile, lock, conns, cl, env>>

\* the loop test finds shutdown_event set
socket_listener_stop(p) ==
    /\ Alive(p) /\ w[p].lis = "wait"
    /\ w[p].shutdown
    /\ w' = [w EXCEPT ![p].lis = "close"]
    /\ UNCHANGED <<pidFile, sockFile, lock, conns, cl, env>>

\* the semaphore slot the accept loop takes for an admitted connection
AcquireSlot(sem) == sem - 1

socket_listener_admit_after_handler(p) ==
    /\ Alive(p) /\ w[p].lis = "wait"
    /\ w[p].backlog # <<>>
    /\ SlotFree(w[p].sem) /\ w[p].stalled = 0
    /\ LET k == Head(w[p].backlog) IN
       /\ w' = [w EXCEPT ![p].lis = LoopHead(w[p].shutdown, "close"),
                         ![p].backlog = Tail(@),
                         ![p].sem = AcquireSlot(@),
                         ![p].stalled = IF k = 0 THEN @ + 1 ELSE @]
       /\ conns' = IF k = 0 THEN conns ELSE [conns EXCEPT ![k].st = "recv"]
    /\ UNCHANGED <<pidFile, sockFile, lock, cl, env>>

\* conn, _ = sock.accept(); the semaphore has a free slot: the connection
\* gets its own handler thread
socket_listener_admit(p) ==
    /\ Alive(p) /\ w[p].lis = "wait"
    /\ w[p].backlog # <<>>
    /\ SlotFree(w[p].sem)
    /\ LET k == Head(w[p].backlog) IN
       /\ w' = [w EXCEPT ![p].lis = LoopHead(w[p].shutdown, "close"),
                         ![p].backlog = Tail(@),
                         ![p].sem = AcquireSlot(@),
                         ![p].stalled = IF k = 0 THEN @ + 1 ELSE @]
       /\ conns' = IF k = 0 THEN conns ELSE [conns EXCEPT ![k].st = "recv"]
    /\ UNCHANGED <<pidFile, sockFile, lock, cl, env>>

\* conn, _ = sock.accept(); no slot: conn.sendall(b'BUSY'); conn.close(); continue
socket_listener_busy(p) ==
    /\ Alive(p) /\ w[p].lis = "wait"
    /\ w[p].backlog # <<>>
    /\ ~SlotFree(w[p].sem)
    /\ LET k == Head(w[p].backlog) IN
       /\ w' = [w EXCEPT ![p].lis = LoopHead(w[p].shutdown, "close"),
                         ![p].backlog = Tail(@)]
       /\ conns' = IF k = 0 THEN conns
                   ELSE [conns EXCEPT ![k].st = "closed", ![k].reply = "BUSY"]
    /\ UNCHANGED <<pidFile, sockFile, lock, cl, env>>

\* except socket.timeout (nothing was pending for a second): the idle check
\* fires: shutdown_event.set()
socket_listener_timeout(p) ==
    /\ Alive(p) /\ w[p].lis = "wait"
    /\ w[p].backlog = <<>>
    /\ IdleExpired(w[p].idle)
    /\ w' = [w EXCEPT ![p] = [SetShutdown(@) EXCEPT !.lis = "idle_put",
                                                    !.idleFired = TRUE]]
    /\ UNCHANGED <<pidFile, sockFile, lock, conns, cl, env>>

\* msg_queue.put(None)  # Signal generator to stop; continue
socket_listener_idle_put(p) ==
    /\ Alive(p) /\ w[p].lis = "idle_put"
    /\ w' = [w EXCEPT ![p].lis = LoopHead(w[p].shutdown, "close"),
                      ![p].queue = QueuePut(@, 0)]
    /\ UNCHANGED <<pidFile, sockFile, lock, conns, cl, env>>

\* finally: sock.close(): connections not yet accepted are reset
socket_listener_close(p) ==
    /\ Alive(p) /\ w[p].lis = "close"
    /\ w' = [w EXCEPT ![p].lis = "unlink", ![p].listening = FALSE, ![p].backlog = <<>>]
    /\ conns' = ResetConns(p, {"backlog"})
    /\ UNCHANGED <<pidFile, sockFile, lock, cl, env>>

\* finally: SOCKET_FILE.unlink(missing_ok=True): whatever file the path names
socket_listener_unlink(p) ==
    /\ Alive(p) /\ w[p].lis = "unlink"
    /\ sockFile' = 0
    /\ w' = [w EXCEPT ![p].lis = "done"]
    /\ UNCHANGED <<pidFile, lock, conns, cl, env>>

(********************* worker: a connection handler thread *****************)
handle_connection_replies_first(k) ==
    /\ conns[k].st = "recv" /\ Alive(conns[k].w)
    /\ conns' = [conns EXCEPT ![k].st = "fin", ![k].reply = "OK"]
    /\ UNCHANGED <<pidFile, sockFile, lock, w, cl, env>>

\* conn.recv until the peer closes its write side, then json.loads and
\* msg_queue.put(msg); a body that is not JSON is answered ERROR; an empty
\* body is answered nothing, and neither is one that data.decode('utf-8')
\* rejects (UnicodeDecodeError is not a json.JSONDecodeError)
handle_connection_recv(k) ==
    /\ conns[k].st = "recv" /\ Alive(conns[k].w)
    /\ LET p == conns[k].w
           kind == conns[k].kind IN
       IF ParsesAsJson(kind)
       THEN /\ w' = [w EXCEPT ![p].queue = QueuePut(@, QueueItem(k, kind)),
                              ![p].enq = IF kind = "null" THEN @ ELSE Append(@, k)]
            /\ conns' = [conns EXCEPT ![k].st = "stamp"]
       ELSE /\ w' = w
            /\ conns' = [conns EXCEPT ![k].st = "fin",
                                      ![k].reply = IF kind = "bad" THEN "ERROR" ELSE "none"]
    /\ UNCHANGED <<pidFile, sockFile, lock, cl, env>>

\* last_activity[0] = time.time()
handle_connection_stamp(k) ==
    /\ conns[k].st = "stamp" /\ Alive(conns[k].w)
    /\ w' = [w EXCEPT ![conns[k].w].idle = 0]
    /\ conns' = [conns EXCEPT ![k].st = "reply"]
    /\ UNCHANGED <<pidFile, sockFile, lock, cl, env>>

\* conn.sendall(b'OK')
handle_connection_ok(k) ==
    /\ conns[k].st = "reply" /\ Alive(conns[k].w)
    /\ conns' = [conns EXCEPT ![k].st = "fin", ![k].reply = "OK"]
    /\ UNCHANGED <<pidFile, sockFile, lock, w, cl, env>>

ReleaseSlotKept(sem) == sem
\* connection_semaphore.release()
ReleaseSlot(sem) == sem + 1

\* finally: conn.close(); connection_semaphore.release()
handle_connection_finally(k) ==
    /\ conns[k].st = "fin" /\ Alive(conns[k].w)
    /\ conns' = [conns EXCEPT ![k].st = "closed"]
    /\ w' = [w EXCEPT ![conns[k].w].sem = ReleaseSlot(@)]
    /\ UNCHANGED <<pidFile, sockFile, lock, cl, env>>

\* the handler of an anonymous connection whose client closes it, having
\* sent nothing: data is empty, finally: close and release
handle_connection_stalled_eof(p) ==
    /\ Alive(p) /\ w[p].stalled > 0
    /\ w' = [w EXCEPT ![p].stalled = @ - 1, ![p].sem = ReleaseSlot(@)]
    /\ UNCHANGED <<pidFile, sockFile, lock, conns, cl, env>>

(************************ worker: the generator thread *********************)
generator_thread_get_second(p) ==
    /\ Alive(p) /\ w[p].gen \in {"wait", "synth"}
    /\ w[p].queue # <<>>
    /\ LET msg == QueueGet(w[p].queue)[1] IN
       w' = [w EXCEPT ![p].queue = QueueGet(@)[2],
                      ![p].gen = IF msg = 0 THEN "put_none" ELSE "synth",
                      ![p].genMsg = msg]
    /\ UNCHANGED <<pidFile, sockFile, lock, conns, cl, env>>

\* msg = msg_queue.get(timeout=1) returns an item
generator_thread_get(p) ==
    /\ Alive(p) /\ w[p].gen = "wait"
    /\ w[p].queue # <<>>
    /\ LET msg == QueueGet(w[p].queue)[1] IN
       w' = [w EXCEPT ![p].queue = QueueGet(@)[2],
                      ![p].gen = IF msg = 0 THEN "put_none" ELSE "synth",
                      ![p].genMsg = msg]
    /\ UNCHANGED <<pidFile, sockFile, lock, conns, cl, env>>

\* the loop test finds shutdown_event set
generator_thread_stop(p) ==
    /\ Alive(p) /\ w[p].gen = "wait"
    /\ w[p].shutdown
    /\ w' = [w EXCEPT ![p].gen = "done"]
    /\ UNCHANGED <<pidFile, sockFile, lock, conns, cl, env>>

generator_thread_synth_after_playback(p) ==
    /\ Alive(p) /\ w[p].gen = "synth" /\ w[p].ply # "play"
    /\ conns[w[p].genMsg].kind = "msg"
    /\ w' = [w EXCEPT ![p].gen = "put", ![p].synth = Append(@, w[p].genMsg),
                      ![p].drainQueue = @ \ {w[p].genMsg}]
    /\ UNCHANGED <<pidFile, sockFile, lock, conns, cl, env>>

\* audio_bytes = generate_audio(msg['text'], ...) returns
generator_thread_synth(p) ==
    /\ Alive(p) /\ w[p].gen = "synth"
    /\ conns[w[p].genMsg].kind = "msg"
    /\ w' = [w EXCEPT ![p].gen = "put", ![p].synth = Append(@, w[p].genMsg),
                      ![p].drainQueue = @ \ {w[p].genMsg}]
    /\ UNCHANGED <<pidFile, sockFile, lock, conns, cl, env>>

generator_thread_error_exits(p) ==
    /\ Alive(p) /\ w[p].gen = "synth"
    /\ w' = [w EXCEPT ![p].gen = "done", ![p].genMsg = 0,
                      ![p].synth = Append(@, w[p].genMsg),
                      ![p].drainQueue = @ \ {w[p].genMsg}]
    /\ UNCHANGED <<pidFile, sockFile, lock, conns, cl, env>>

\* except Exception: continue.  generate_audio raises, or the item is not an
\* object with the four fields and msg['text'] raises before synthesis
generator_thread_error(p) ==
    /\ Alive(p) /\ w[p].gen = "synth"
    /\ w' = [w EXCEPT ![p].gen = LoopHead(w[p].shutdown, "done"),
                      ![p].genMsg = 0,
                      ![p].synth = IF conns[w[p].genMsg].kind = "msg"
                                   THEN Append(@, w[p].genMsg) ELSE @,
                      ![p].drainQueue = @ \ {w[p].genMsg}]
    /\ UNCHANGED <<pidFile, sockFile, lock, conns, cl, env>>

\* audio_buffer.put((audio_bytes, chunk_info)): blocks while the buffer is full
generator_thread_put(p) ==
    /\ Alive(p) /\ w[p].gen = "put"
    /\ BufferHasRoom(w[p].buffer)
    /\ w' = [w EXCEPT ![p].gen = LoopHead(w[p].shutdown, "done"),
                      ![p].genMsg = 0,
                      ![p].buffer = QueuePut(@, w[p].genMsg)]
    /\ UNCHANGED <<pidFile, sockFile, lock, conns, cl, env>>

\* if msg is None: audio_buffer.put((None, "")); break
generator_thread_put_none(p) ==
    /\ Alive(p) /\ w[p].gen = "put_none"
    /\ BufferHasRoom(w[p].buffer)
    /\ w' = [w EXCEPT ![p].gen = "done", ![p].buffer = QueuePut(@, 0)]
    /\ UNCHANGED <<pidFile, sockFile, lock, conns, cl, env>>

(************************* worker: the player thread ***********************)
\* item = audio_buffer.get(timeout=1) returns an item; item[0] is None: break;
\* otherwise play_audio(audio_bytes, chunk_info) starts
player_thread_get(p) ==
    /\ Alive(p) /\ w[p].ply = "wait"
    /\ w[p].buffer # <<>>
    /\ LET item == QueueGet(w[p].buffer)[1] IN
       w' = [w EXCEPT ![p].buffer = QueueGet(@)[2],
                      ![p].ply = IF item = 0 THEN "done" ELSE "play",
                      ![p].plyMsg = item,
                      ![p].played = IF item = 0 THEN @ ELSE Append(@, item),
                      ![p].drainBuffer = @ \ {item}]
    /\ UNCHANGED <<pidFile, sockFile, lock, conns, cl, env>>

\* the loop test finds shutdown_event set
player_thread_stop(p) ==
    /\ Alive(p) /\ w[p].ply = "wait"
    /\ w[p].shutdown
    /\ w' = [w EXCEPT ![p].ply = "done"]
    /\ UNCHANGED <<pidFile, sockFile, lock, conns, cl, env>>

\* play_audio returns, or raises and the error is printed: continue
player_thread_played(p) ==
    /\ Alive(p) /\ w[p].ply = "play"
    /\ w' = [w EXCEPT ![p].ply = LoopHead(w[p].shutdown, "done"),
                      ![p].plyMsg = 0]
    /\ UNCHANGED <<pidFile, sockFile, lock, conns, cl, env>>

player_thread_error_exits(p) ==
    /\ Alive(p) /\ w[p].ply = "play"
    /\ w' = [w EXCEPT ![p].ply = "done", ![p].plyMsg = 0,
                      ![p].playFailed = @ \cup {w[p].plyMsg}]
    /\ UNCHANGED <<pidFile, sockFile, lock, conns, cl, env>>

\* play_audio raises: except Exception: print and continue; playFailed
\* records the chunks whose playback raised
player_thread_error(p) ==
    /\ Alive(p) /\ w[p].ply = "play"
    /\ w' = [w EXCEPT ![p].ply = LoopHead(w[p].shutdown, "done"),
                      ![p].plyMsg = 0,
                      ![p].playFailed = @ \cup {w[p].plyMsg}]
    /\ UNCHANGED <<pidFile, sockFile, lock, conns, cl, env>>

(************************** worker: the main thread ************************)
\* SIGTERM or SIGINT is delivered: signal_handler runs shutdown_event.set()
signal_handler_set(p) ==
    /\ Alive(p) /\ w[p].sig = "none"
    /\ env.sigs > 0
    /\ env' = [env EXCEPT !.sigs = @ - 1]
    /\ w' = [w EXCEPT ![p] = [SetShutdown(@) EXCEPT !.sig = "put"]]
    /\ UNCHANGED <<pidFile, sockFile, lock, conns, cl>>

\* signal_handler: msg_queue.put(None)
signal_handler_put(p) ==
    /\ Alive(p) /\ w[p].sig = "put"
    /\ w' = [w EXCEPT ![p].sig = "none", ![p].queue = QueuePut(@, 0)]
    /\ UNCHANGED <<pidFile, sockFile, lock, conns, cl, env>>

\* socket_thread.join(); gen_thread.join(); play_thread.join()
worker_process_join(p) ==
    /\ Alive(p) /\ w[p].main = "join" /\ w[p].sig = "none"
    /\ w[p].lis = "done" /\ w[p].gen = "done" /\ w[p].ply = "done"
    /\ w' = [w EXCEPT ![p].main = "cleanup_pid"]
    /\ UNCHANGED <<pidFile, sockFile, lock, conns, cl, env>>

\* cleanup_worker(): PID_FILE.unlink(missing_ok=True)
worker_process_cleanup_pid(p) ==
    /\ Alive(p) /\ w[p].main = "cleanup_pid" /\ w[p].sig = "none"
    /\ pidFile' = 0
    /\ w' = [w EXCEPT ![p].main = "cleanup_sock"]
    /\ UNCHANGED <<sockFile, lock, conns, cl, env>>

\* cleanup_worker(): SOCKET_FILE.unlink(missing_ok=True); worker_process
\* returns and the process exits, its open connections with it
worker_process_exit(p) ==
    /\ Alive(p) /\ w[p].main = "cleanup_sock" /\ w[p].sig = "none"
    /\ sockFile' = 0
    /\ w' = [w EXCEPT ![p].main = "done", ![p].proc = "exited"]
    /\ conns' = ResetConns(p, {"backlog", "recv", "stamp", "reply", "fin"})
    /\ UNCHANGED <<pidFile, lock, cl, env>>

(****************************** environment ********************************)
\* time passes for every running worker
Tick ==
    /\ env.clock
    /\ \E p \in Workers : Alive(p) /\ ~IdleExpired(w[p].idle)
    /\ w' = [p \in Workers |->
               IF Alive(p) /\ ~IdleExpired(w[p].idle)
               THEN [w[p] EXCEPT !.idle = @ + TickSeconds] ELSE w[p]]
    /\ UNCHANGED <<pidFile, sockFile, lock, conns, cl, env>>

\* a local process connects to the socket, sends a body and closes its write side
RawConnect(kind) ==
    /\ env.conns > 0 /\ kind \in env.kinds
    /\ FreeConns # {}
    /\ Cardinality({k \in ConnIds : Open(k)}) < env.live
    /\ Connectable(sockFile)
    /\ LET k == NextConn IN
       /\ conns' = [conns EXCEPT ![k] = [st |-> "backlog", w |-> sockFile, cl |-> 0,
                                         kind |-> kind, reply |-> "none",
                                         text |-> 0]]
       /\ w' = [w EXCEPT ![sockFile].backlog = Append(@, k)]
    /\ env' = [env EXCEPT !.conns = @ - 1]
    /\ UNCHANGED <<pidFile, sockFile, lock, cl>>

\* a local process connects and keeps its write side open
StallConnect ==
    /\ env.stalls
    /\ Connectable(sockFile)
    /\ w' = [w EXCEPT ![sockFile].backlog = Append(@, 0)]
    /\ UNCHANGED <<pidFile, sockFile, lock, conns, cl, env>>

(************************** the daemon on its own **************************)
\* The steps of a worker that every specification below can take.  Others
\* are added where their guards can hold: socket_listener_busy needs
\* MAX_CONCURRENT_CONNECTIONS handlers in flight, socket_listener_bind_fails
\* needs a socket file left by somebody else, and the steps of Signalled
\* need a signal.
Listener(p) == \/ socket_listener_bind(p)
               \/ socket_listener_admit(p)
               \/ socket_listener_timeout(p)
               \/ socket_listener_idle_put(p)
               \/ socket_listener_close(p)
               \/ socket_listener_unlink(p)

Handler(k) == \/ handle_connection_recv(k)
              \/ handle_connection_stamp(k)
              \/ handle_connection_ok(k)
              \/ handle_connection_finally(k)

Generator(p) == \/ generator_thread_get(p)
                \/ generator_thread_stop(p)
                \/ generator_thread_synth(p)
                \/ generator_thread_error(p)
                \/ generator_thread_put(p)
                \/ generator_thread_put_none(p)

Player(p) == \/ player_thread_get(p)
             \/ player_thread_stop(p)
             \/ player_thread_played(p)

Main(p) == \/ worker_process_join(p)
           \/ worker_process_cleanup_pid(p)
           \/ worker_process_exit(p)

Daemon == \/ \E p \in Workers : Listener(p) \/ Generator(p) \/ Player(p) \/ Main(p)
          \/ \E k \in ConnIds : Handler(k)

\* a signal arrives, the handler runs, the listener finds the event set
Signalled(p) == \/ signal_handler_set(p)
                \/ signal_handler_put(p)
                \/ socket_listener_stop(p)

\* an environment that does nothing: no connections from outside, no
\* signals, no process is spawned or killed, no receive times out, no time
\* passes, clients do not overlap
Quiet == [conns |-> 0, live |-> 0, kinds |-> {}, stalls |-> FALSE, sigs |-> 0,
          spawns |-> 0, kills |-> 0, timeouts |-> 0, clock |-> FALSE,
          overlap |-> FALSE]

\* a daemon that start_worker has just spawned and recorded in worker.pid
InitDaemon(e) ==
    /\ pidFile = 1
    /\ sockFile = 0
    /\ lock = 0
    /\ w = [p \in Workers |-> IF p = 1 THEN worker_process ELSE Unborn]
    /\ conns = [k \in ConnIds |-> NoConn]
    /\ cl = [c \in Clients |-> NoClient]
    /\ env = e

\* the pipeline: bodies of every kind arrive, at most MaxLive at a time
InitPipe == InitDaemon([Quiet EXCEPT !.conns = PipeConns, !.live = PipeLive,
                                     !.kinds = {"msg"}, !.sigs = MaxSignals,
                                     !.clock = TRUE])

NextPipe == \/ Daemon
            \/ Tick
            \/ \E kind \in Kinds : RawConnect(kind)
            \/ \E p \in Workers : Signalled(p)

SpecPipe == InitPipe /\ [][NextPipe]_vars

\* the pipeline under load: more requests, one client at a time
InitDeep == InitDaemon([Quiet EXCEPT !.conns = DeepConns, !.live = DeepLive,
                                     !.kinds = {"msg"}, !.clock = TRUE])

NextDeep == \/ Daemon
            \/ Tick
            \/ \E kind \in Kinds : RawConnect(kind)

SpecDeep == InitDeep /\ [][NextDeep]_vars

\* the threads of a live process are scheduled, the collaborators return,
\* and time passes
FairDaemon == /\ \A p \in Workers : /\ WF_vars(Listener(p))
                                    /\ WF_vars(Generator(p))
                                    /\ WF_vars(Player(p))
                                    /\ WF_vars(Main(p))
              /\ \A k \in ConnIds : WF_vars(Handler(k))
              /\ WF_vars(Tick)

FairSpecDeep == SpecDeep /\ FairDaemon

\* request bodies of every kind, one connection at a time
InitBody == InitDaemon([Quiet EXCEPT !.conns = BodyConns, !.live = BodyLive,
                                     !.kinds = Kinds, !.clock = TRUE])

NextBody == \/ Daemon
            \/ Tick
            \/ \E kind \in Kinds : RawConnect(kind)

SpecBody == InitBody /\ [][NextBody]_vars

\* well-formed messages whose synthesis or playback can fail
InitFault == InitDaemon([Quiet EXCEPT !.conns = FaultConns, !.live = FaultLive,
                                      !.kinds = {"msg"}, !.clock = TRUE])

NextFault == \/ Daemon
             \/ \E p \in Workers : player_thread_error(p)
             \/ Tick
             \/ \E kind \in Kinds : RawConnect(kind)

SpecFault == InitFault /\ [][NextFault]_vars

FairSpecFault == SpecFault /\ FairDaemon

\* the admission gate: many clients that connect and send nothing
InitGate == InitDaemon([Quiet EXCEPT !.conns = GateConns, !.live = GateConns,
                                     !.kinds = {"msg"}, !.stalls = TRUE,
                                     !.clock = TRUE])

NextGate == \/ Daemon
            \/ \E p \in Workers : socket_listener_busy(p)
            \/ Tick
            \/ \E kind \in Kinds : RawConnect(kind)
            \/ StallConnect
            \/ \E p \in Workers : handle_connection_stalled_eof(p)

SpecGate == InitGate /\ [][NextGate]_vars

(***************************************************************************)
(*                 The client: send_to_queue and what it calls             *)
(***************************************************************************)
AfterLivenessCheckLocks(c, running) ==
    CASE cl[c].ret = "s2q" -> "sw_lock"
      [] cl[c].ret = "sw" -> IF running THEN "sw_unlock" ELSE "sw_unlink_sock"
      [] OTHER -> IF running /\ sockFile # 0 THEN "connect" ELSE "iwr"

AfterLivenessCheckSpawns(c, running) ==
    CASE cl[c].ret = "s2q" -> IF running THEN "connect" ELSE "sw_lock"
      [] cl[c].ret = "sw" -> "sw_unlink_sock"
      [] OTHER -> IF running /\ sockFile # 0 THEN "connect" ELSE "iwr"

\* is_worker_running returns to its caller: send_to_queue ("s2q"), the lock
\* holder's re-check in start_worker ("sw") or the poll loop of a starter
\* that found the lock held ("poll")
AfterLivenessCheck(c, running) ==
    CASE cl[c].ret = "s2q" -> IF running THEN "connect" ELSE "sw_lock"
      [] cl[c].ret = "sw" -> IF running THEN "sw_unlock" ELSE "sw_unlink_sock"
      [] OTHER -> IF running /\ sockFile # 0 THEN "connect" ELSE "iwr"

\* worker.pid names a killed daemon and worker.sock is the socket it bound
StaleFiles == /\ pidFile \in Workers
              /\ w[pidFile].proc = "killed"
              /\ sockFile = pidFile

\* the return address is dropped when is_worker_running has returned
Returned(ret, pc) == IF pc \in {"iwr", "iwr_unlink"} THEN ret ELSE "none"

\* is_worker_running has returned to its caller, which goes on at pc; in the
\* poll loop "is_worker_running() and SOCKET_FILE.exists()" held when the
\* caller goes on to connect: start_worker returns None
AfterCheck(c, pc) ==
    IF cl[c].ret = "poll" /\ pc = "connect"
    THEN [cl EXCEPT ![c].pc = pc, ![c].ret = "none",
                    ![c].started = "None", ![c].endpoint = "seen"]
    ELSE [cl EXCEPT ![c].pc = pc, ![c].ret = Returned(@, pc)]

\* send_to_queue: if not is_worker_running(): start_worker(...).  Clients
\* enter in the order of their numbers; when the scenario has no overlap,
\* one enters after the one before it has returned
send_to_queue_start(c) ==
    /\ cl[c].pc = "start"
    /\ \A d \in Clients : d < c =>
          IF env.overlap THEN cl[d].pc # "start" ELSE cl[d].pc = "done"
    /\ cl' = [cl EXCEPT ![c].pc = "iwr", ![c].ret = "s2q", ![c].stale = IF StaleFiles THEN pidFile ELSE 0]
    /\ UNCHANGED <<pidFile, sockFile, lock, w, conns, env>>

is_worker_running_trusts_file(c) ==
    /\ cl[c].pc = "iwr"
    /\ cl' = AfterCheck(c, AfterLivenessCheck(c, pidFile # 0))
    /\ UNCHANGED <<pidFile, sockFile, lock, w, conns, env>>

\* is_worker_running: the PID file is missing: False.  Otherwise read it and
\* os.kill(pid, 0): True when the process exists; an empty file (ValueError)
\* or a dead process (OSError) leads to the unlink
is_worker_running_check(c) ==
    /\ cl[c].pc = "iwr"
    /\ LET pc == IF pidFile = 0 THEN AfterLivenessCheck(c, FALSE)
                 ELSE IF Alive(pidFile) THEN AfterLivenessCheck(c, TRUE)
                 ELSE "iwr_unlink" IN
       cl' = AfterCheck(c, pc)
    /\ UNCHANGED <<pidFile, sockFile, lock, w, conns, env>>

\* except (OSError, ValueError): PID_FILE.unlink(missing_ok=True); return False
is_worker_running_unlink(c) ==
    /\ cl[c].pc = "iwr_unlink"
    /\ pidFile' = 0
    /\ cl' = AfterCheck(c, AfterLivenessCheck(c, FALSE))
    /\ UNCHANGED <<sockFile, lock, w, conns, env>>

\* start_worker: fcntl.flock(LOCK_EX | LOCK_NB) succeeds
start_worker_lock(c) ==
    /\ cl[c].pc = "sw_lock"
    /\ lock = 0
    /\ lock' = c
    /\ cl' = [cl EXCEPT ![c].pc = "iwr", ![c].ret = "sw"]
    /\ UNCHANGED <<pidFile, sockFile, w, conns, env>>

\* start_worker: flock raises BlockingIOError: lock_file.close() and poll
start_worker_contended(c) ==
    /\ cl[c].pc = "sw_lock"
    /\ lock # 0
    /\ cl' = [cl EXCEPT ![c].pc = "iwr", ![c].ret = "poll"]
    /\ UNCHANGED <<pidFile, sockFile, lock, w, conns, env>>

\* the poll loop ends after its 50 rounds: return None
start_worker_poll_timeout(c) ==
    /\ cl[c].pc = "iwr" /\ cl[c].ret = "poll"
    /\ cl' = [cl EXCEPT ![c].pc = "connect", ![c].ret = "none",
                        ![c].started = "None", ![c].endpoint = "missing"]
    /\ UNCHANGED <<pidFile, sockFile, lock, w, conns, env>>

\* start_worker: SOCKET_FILE.unlink(missing_ok=True)
start_worker_unlink_sock(c) ==
    /\ cl[c].pc = "sw_unlink_sock"
    /\ sockFile' = 0
    /\ cl' = [cl EXCEPT ![c].pc = "sw_spawn"]
    /\ UNCHANGED <<pidFile, lock, w, conns, env>>

\* the process ids not used yet
UnbornWorkers == {p \in Workers : w[p].proc = "unborn"}

\* start_worker: worker = Process(target=worker_process, ...); worker.start()
start_worker_spawn(c) ==
    /\ cl[c].pc = "sw_spawn"
    /\ env.spawns > 0 /\ UnbornWorkers # {}
    /\ LET p == CHOOSE q \in UnbornWorkers : \A r \in UnbornWorkers : q <= r IN
       /\ w' = [w EXCEPT ![p] = worker_process]
       /\ cl' = [cl EXCEPT ![c].pc = "sw_pid_open", ![c].spawned = p]
    /\ env' = [env EXCEPT !.spawns = @ - 1]
    /\ UNCHANGED <<pidFile, sockFile, lock, conns>>

\* start_worker: open(PID_FILE, 'w') creates or truncates the file
start_worker_pid_open(c) ==
    /\ cl[c].pc = "sw_pid_open"
    /\ pidFile' = -1
    /\ cl' = [cl EXCEPT ![c].pc = "sw_pid_write"]
    /\ UNCHANGED <<sockFile, lock, w, conns, env>>

\* start_worker: f.write(str(worker.pid)) and close; the text goes to the
\* file that was opened, which the path no longer names once it was unlinked
start_worker_pid_write(c) ==
    /\ cl[c].pc = "sw_pid_write"
    /\ pidFile' = IF pidFile = -1 THEN cl[c].spawned ELSE pidFile
    /\ cl' = [cl EXCEPT ![c].pc = "sw_wait", ![c].spawned = 0]
    /\ UNCHANGED <<sockFile, lock, w, conns, env>>

\* start_worker: the wait for the socket file ends, because the file is
\* there or because the 50 rounds are over
start_worker_wait(c) ==
    /\ cl[c].pc = "sw_wait"
    /\ cl' = [cl EXCEPT ![c].pc = "sw_unlock",
                        ![c].endpoint = IF sockFile # 0 THEN "seen" ELSE "missing"]
    /\ UNCHANGED <<pidFile, sockFile, lock, w, conns, env>>

start_worker_unlock_after_endpoint(c) ==
    /\ cl[c].pc = "sw_unlock"
    /\ lock' = IF lock = c /\ cl[c].endpoint # "missing" THEN 0 ELSE lock
    /\ cl' = [cl EXCEPT ![c].pc = "connect",
                        ![c].started = IF cl[c].endpoint = "none"
                                       THEN "None" ELSE "worker"]
    /\ UNCHANGED <<pidFile, sockFile, w, conns, env>>

\* start_worker: fcntl.flock(LOCK_UN); lock_file.close(); return None when
\* the re-check found a running worker, return worker after the wait
start_worker_unlock(c) ==
    /\ cl[c].pc = "sw_unlock"
    /\ lock' = IF lock = c THEN 0 ELSE lock
    /\ cl' = [cl EXCEPT ![c].pc = "connect",
                        ![c].started = IF cl[c].endpoint = "none"
                                       THEN "None" ELSE "worker"]
    /\ UNCHANGED <<pidFile, sockFile, w, conns, env>>

\* cleanup_worker: PID_FILE.unlink(missing_ok=True)
cleanup_worker_pid(c) ==
    /\ cl[c].pc = "cu_pid"
    /\ pidFile' = 0
    /\ cl' = [cl EXCEPT ![c].pc = "cu_sock"]
    /\ UNCHANGED <<sockFile, lock, w, conns, env>>

\* cleanup_worker: SOCKET_FILE.unlink(missing_ok=True); then start_worker
cleanup_worker_sock(c) ==
    /\ cl[c].pc = "cu_sock"
    /\ sockFile' = 0
    /\ cl' = [cl EXCEPT ![c].pc = "sw_lock"]
    /\ UNCHANGED <<pidFile, lock, w, conns, env>>

NextAttemptUnbounded(c, pc) ==
    [cl EXCEPT ![c].pc = pc, ![c].conn = 0,
               ![c].started = "none", ![c].endpoint = "none"]

NextAttemptGivesUp(c, pc) ==
    [cl EXCEPT ![c].pc = "done", ![c].result = "False", ![c].conn = 0,
               ![c].started = "none", ![c].endpoint = "none"]
\* the end of one round of the retry loop that did not return: the next
\* round, or return False after the last
NextAttempt(c, pc) ==
    IF cl[c].attempt < max_retries - 1
    THEN [cl EXCEPT ![c].pc = pc, ![c].attempt = @ + 1, ![c].conn = 0,
                    ![c].started = "none", ![c].endpoint = "none"]
    ELSE [cl EXCEPT ![c].pc = "done", ![c].result = "False", ![c].conn = 0,
                    ![c].started = "none", ![c].endpoint = "none"]

\* sock.connect, sendall(json.dumps(msg)) and shutdown(SHUT_WR) succeed
send_to_queue_connect(c) ==
    /\ cl[c].pc = "connect"
    /\ Connectable(sockFile)
    /\ env.conns > 0
    /\ FreeConns # {}
    /\ LET k == NextConn IN
       /\ conns' = [conns EXCEPT ![k] = [st |-> "backlog", w |-> sockFile, cl |-> c,
                                         kind |-> "msg", reply |-> "none",
                                         text |-> cl[c].idx]]
       /\ w' = [w EXCEPT ![sockFile].backlog = Append(@, k)]
       /\ cl' = [cl EXCEPT ![c].pc = "recv", ![c].conn = k,
                           ![c].started = "none", ![c].endpoint = "none"]
    /\ env' = [env EXCEPT !.conns = @ - 1]
    /\ UNCHANGED <<pidFile, sockFile, lock>>

\* except FileNotFoundError: cleanup_worker(), start_worker(), sleep and
\* continue; on the last round return False
send_to_queue_not_found(c) ==
    /\ cl[c].pc = "connect"
    /\ sockFile = 0
    /\ cl' = NextAttempt(c, "cu_pid")
    /\ UNCHANGED <<pidFile, sockFile, lock, w, conns, env>>

\* connect is refused (nobody listens on the socket the file names) or times
\* out (the backlog is full): except socket.timeout / except Exception
send_to_queue_refused(c) ==
    /\ cl[c].pc = "connect"
    /\ sockFile # 0 /\ ~Connectable(sockFile)
    /\ cl' = NextAttempt(c, "connect")
    /\ UNCHANGED <<pidFile, sockFile, lock, w, conns, env>>

send_to_queue_recv_any_reply(c) ==
    /\ cl[c].pc = "recv"
    /\ LET k == cl[c].conn IN
       /\ conns[k].reply # "none" \/ conns[k].st = "closed"
       /\ cl' = IF conns[k].reply # "none"
                THEN [cl EXCEPT ![c].pc = "done", ![c].result = "True"]
                ELSE NextAttempt(c, "connect")
    /\ UNCHANGED <<pidFile, sockFile, lock, w, conns, env>>

\* response = sock.recv(10) returns what the daemon sent, or b'' when the
\* daemon closed the connection without a reply
send_to_queue_recv(c) ==
    /\ cl[c].pc = "recv"
    /\ LET k == cl[c].conn IN
       /\ conns[k].reply # "none" \/ conns[k].st = "closed"
       /\ cl' = CASE conns[k].reply = "OK" ->
                       [cl EXCEPT ![c].pc = "done", ![c].result = "True"]
                  [] conns[k].reply = "ERROR" ->
                       [cl EXCEPT ![c].pc = "done", ![c].result = "False"]
                  [] OTHER -> NextAttempt(c, "connect")
    /\ UNCHANGED <<pidFile, sockFile, lock, w, conns, env>>

\* sock.recv(10) times out after 5 seconds: except socket.timeout
send_to_queue_timeout(c) ==
    /\ cl[c].pc = "recv"
    /\ conns[cl[c].conn].reply = "none" /\ conns[cl[c].conn].st # "closed"
    /\ env.timeouts > 0
    /\ env' = [env EXCEPT !.timeouts = @ - 1]
    /\ cl' = NextAttempt(c, "connect")
    /\ UNCHANGED <<pidFile, sockFile, lock, w, conns>>

Client(c) == \/ send_to_queue_start(c)
             \/ is_worker_running_check(c)
             \/ is_worker_running_unlink(c)
             \/ start_worker_lock(c)
             \/ start_worker_contended(c)
             \/ start_worker_poll_timeout(c)
             \/ start_worker_unlink_sock(c)
             \/ start_worker_spawn(c)
             \/ start_worker_pid_open(c)
             \/ start_worker_pid_write(c)
             \/ start_worker_wait(c)
             \/ start_worker_unlock(c)
             \/ cleanup_worker_pid(c)
             \/ cleanup_worker_sock(c)
             \/ send_to_queue_connect(c)
             \/ send_to_queue_not_found(c)
             \/ send_to_queue_refused(c)
             \/ send_to_queue_recv(c)
             \/ send_to_queue_timeout(c)

\* send_to_queue called alone: no other client holds or waits for the lock
ClientAlone(c) == \/ send_to_queue_start(c)
                  \/ is_worker_running_check(c)
                  \/ is_worker_running_unlink(c)
                  \/ start_worker_lock(c)
                  \/ start_worker_unlink_sock(c)
                  \/ start_worker_spawn(c)
                  \/ start_worker_pid_open(c)
                  \/ start_worker_pid_write(c)
                  \/ start_worker_wait(c)
                  \/ start_worker_unlock(c)
                  \/ cleanup_worker_pid(c)
                  \/ cleanup_worker_sock(c)
                  \/ send_to_queue_connect(c)
                  \/ send_to_queue_not_found(c)
                  \/ send_to_queue_refused(c)
                  \/ send_to_queue_recv(c)
                  \/ send_to_queue_timeout(c)

(********************************** main ***********************************)
main_read_queues(c) ==
    /\ cl[c].pc = "main"
    /\ LET texts == Texts(cl[c].queue, cl[c].argText, cl[c].stdin) IN
       cl' = IF EmptyText(texts)
             THEN [cl EXCEPT ![c].pc = "exited", ![c].exit = 1, ![c].stdin = <<>>]
             ELSE [cl EXCEPT ![c].pc = "start", ![c].texts = texts, ![c].idx = 1,
                             ![c].stdin = <<>>]
    /\ UNCHANGED <<pidFile, sockFile, lock, w, conns, env>>

\* main up to the mode switch: texts from args.text or from stdin; an empty
\* text exits with status 1; queue mode enters its loop at the first text,
\* direct mode calls speak_text(texts[0])
main_read(c) ==
    /\ cl[c].pc = "main"
    /\ LET texts == Texts(cl[c].queue, cl[c].argText, cl[c].stdin) IN
       cl' = IF EmptyText(texts)
             THEN [cl EXCEPT ![c].pc = "exited", ![c].exit = 1, ![c].stdin = <<>>]
             ELSE IF cl[c].queue
             THEN [cl EXCEPT ![c].pc = "start", ![c].texts = texts, ![c].idx = 1,
                             ![c].stdin = <<>>]
             ELSE [cl EXCEPT ![c].pc = "speak", ![c].texts = texts,
                             ![c].stdin = <<>>]
    /\ UNCHANGED <<pidFile, sockFile, lock, w, conns, env>>

main_next_ignores_failure(c) ==
    /\ cl[c].pc = "done" /\ cl[c].idx > 0
    /\ cl' = IF cl[c].idx < Len(cl[c].texts)
             THEN [cl EXCEPT ![c].pc = "start", ![c].idx = @ + 1,
                             ![c].attempt = 0, ![c].result = "none",
                             ![c].conn = 0, ![c].spawned = 0, ![c].stale = 0]
             ELSE [cl EXCEPT ![c].pc = "exited", ![c].exit = 0]
    /\ UNCHANGED <<pidFile, sockFile, lock, w, conns, env>>

\* the loop after send_to_queue(text) returned: not success: sys.exit(1);
\* otherwise the next text, and past the last one main returns (status 0)
main_next(c) ==
    /\ cl[c].pc = "done" /\ cl[c].idx > 0
    /\ cl' = IF cl[c].result # "True"
             THEN [cl EXCEPT ![c].pc = "exited", ![c].exit = 1]
             ELSE IF cl[c].idx < Len(cl[c].texts)
             THEN [cl EXCEPT ![c].pc = "start", ![c].idx = @ + 1,
                             ![c].attempt = 0, ![c].result = "none",
                             ![c].conn = 0, ![c].spawned = 0, ![c].stale = 0]
             ELSE [cl EXCEPT ![c].pc = "exited", ![c].exit = 0]
    /\ UNCHANGED <<pidFile, sockFile, lock, w, conns, env>>

\* speak_text: generate_audio(text, ...) returns the audio
speak_text_generate(c) ==
    /\ cl[c].pc = "speak"
    /\ cl' = [cl EXCEPT ![c].pc = "play"]
    /\ UNCHANGED <<pidFile, sockFile, lock, w, conns, env>>

\* speak_text: play_audio(audio_bytes) returns, and main returns (status 0)
speak_text_play(c) ==
    /\ cl[c].pc = "play"
    /\ cl' = [cl EXCEPT ![c].pc = "exited", ![c].exit = 0]
    /\ UNCHANGED <<pidFile, sockFile, lock, w, conns, env>>

\* generate_audio or play_audio raises: except Exception: sys.exit(1)
speak_text_error(c) ==
    /\ cl[c].pc \in {"speak", "play"}
    /\ cl' = [cl EXCEPT ![c].pc = "exited", ![c].exit = 1]
    /\ UNCHANGED <<pidFile, sockFile, lock, w, conns, env>>

main(c) == \/ main_read(c)
           \/ main_next(c)
           \/ speak_text_generate(c)
           \/ speak_text_play(c)
           \/ speak_text_error(c)

\* the worker process is killed (SIGKILL, a crash): its threads stop where
\* they are, the kernel closes its sockets, its files stay
Kill(p) ==
    /\ Alive(p)
    /\ env.kills > 0
    /\ env' = [env EXCEPT !.kills = @ - 1]
    /\ w' = [w EXCEPT ![p].proc = "killed", ![p].listening = FALSE, ![p].backlog = <<>>]
    /\ conns' = ResetConns(p, {"backlog", "recv", "stamp", "reply", "fin"})
    /\ UNCHANGED <<pidFile, sockFile, lock, cl>>

\* what the clients run into between a cold start and their return:
\*   Race      they run at the same time, nothing else happens
\*   Crash     they run one after the other, and a daemon can be killed
\*   Patience  they run one after the other, and a receive can time out
\*   Idle      they run one after the other while time passes, and the
\*             daemon that exits is not replaced
Race == [Quiet EXCEPT !.spawns = ColdSpawns, !.conns = RaceConns, !.overlap = TRUE]
Crash == [Quiet EXCEPT !.spawns = ColdSpawns, !.conns = ColdConns, !.kills = MaxKills]
Patience == [Quiet EXCEPT !.spawns = ColdSpawns, !.conns = ColdConns,
                          !.timeouts = MaxTimeouts]
Idle == [Quiet EXCEPT !.spawns = 1, !.conns = ColdConns, !.clock = TRUE]

\* a cold start: no PID file, no socket file, no worker process, and every
\* client at the top of send_to_queue
InitCold ==
    /\ pidFile = 0
    /\ sockFile = 0
    /\ lock = 0
    /\ w = [p \in Workers |-> Unborn]
    /\ conns = [k \in ConnIds |-> NoConn]
    /\ cl = [c \in Clients |-> [NoClient EXCEPT !.pc = "start"]]
    /\ env \in {Race, Crash, Patience, Idle}

\* a daemon that bound its socket and was then killed
KilledDaemon == [worker_process EXCEPT !.proc = "killed", !.lis = "wait"]

\* a start after a crash: daemon 1 was killed, its PID file and its socket
\* file are on disk, and the clients run one after the other; every other
\* process id can be spawned
InitStale ==
    /\ pidFile = 1
    /\ sockFile = 1
    /\ lock = 0
    /\ w = [p \in Workers |-> IF p = 1 THEN KilledDaemon ELSE Unborn]
    /\ conns = [k \in ConnIds |-> NoConn]
    /\ cl = [c \in Clients |-> [NoClient EXCEPT !.pc = "start"]]
    /\ env = [Quiet EXCEPT !.spawns = MaxWorkers - 1, !.conns = ColdConns]

Init == InitCold \/ InitStale

Next == \/ Daemon
        \/ \E p \in Workers : socket_listener_bind_fails(p)
        \/ \E c \in Clients : Client(c)
        \/ \E p \in Workers : Kill(p)
        \/ Tick

Spec == Init /\ [][Next]_vars

\* the threads of the live daemons are scheduled
FairSpec == Spec /\ FairDaemon

\* a daemon that has bound its socket, is recorded in worker.pid and waits
\* in accept
BoundDaemon == [worker_process EXCEPT !.lis = "wait", !.listening = TRUE]

\* submissions to a running daemon under load: other local processes hold
\* connections open without sending, a receive can time out, and the daemon
\* can be killed
InitBusy ==
    /\ pidFile = 1
    /\ sockFile = 1
    /\ lock = 0
    /\ w = [p \in Workers |-> IF p = 1 THEN BoundDaemon ELSE Unborn]
    /\ conns = [k \in ConnIds |-> NoConn]
    /\ cl = [c \in Clients |-> [NoClient EXCEPT !.pc = "start"]]
    /\ env = [Quiet EXCEPT !.conns = BusyConns, !.stalls = TRUE,
                           !.timeouts = MaxTimeouts, !.kills = MaxKills]

NextBusy == \/ \E p \in Workers : \/ socket_listener_admit(p)
                                  \/ socket_listener_busy(p)
                                  \/ handle_connection_stalled_eof(p)
                                  \/ Kill(p)
            \/ \E k \in ConnIds : Handler(k)
            \/ StallConnect
            \/ \E c \in Clients : \/ send_to_queue_start(c)
                                  \/ is_worker_running_check(c)
                                  \/ send_to_queue_connect(c)
                                  \/ send_to_queue_refused(c)
                                  \/ send_to_queue_recv(c)
                                  \/ send_to_queue_timeout(c)

SpecBusy == InitBusy /\ [][NextBusy]_vars

\* a client process runs on: its sleeps, its bounded waits and the timeouts
\* of its socket come to an end
FairCalls == \A c \in Clients : WF_vars(Client(c))

FairSpecCalls == Spec /\ FairCalls

(***************************************************************************)
(*                               The claims                                *)
(***************************************************************************)
\* the AudioChunks in the playback buffer (the sentinel is not one)
Chunks(buf) == Cardinality({i \in 1..Len(buf) : buf[i] # 0})

\* handler threads of worker p that hold an admission slot
HandlersInFlight(p) == Cardinality(InFlight(p)) + w[p].stalled

\* C1: the player starts playback of the chunks in the order in which their
\* requests were put on the request queue: every played chunk was enqueued,
\* and of two played chunks the one played first was enqueued first.
C1_PlayedInEnqueueOrder ==
    \A p \in Workers :
        LET played == w[p].played
            enq == w[p].enq IN
        /\ \A i \in 1..Len(played) : Pos(enq, played[i]) > 0
        /\ \A i, j \in 1..Len(played) :
               i < j => Pos(enq, played[i]) < Pos(enq, played[j])

\* two chunks were played, and the request of the connection opened second
\* was enqueued (and played) first
C1_Witness ==
    \E p \in Workers : w[p].enq = <<2, 1>> /\ w[p].played = <<2, 1>>

\* C3 (as stated): a message that was enqueued and acknowledged OK is never
\* dropped unsynthesized: when the worker has exited, every acknowledged
\* message has been passed to synthesis.
C3_AcknowledgedMessageSynthesized ==
    \A p \in Workers :
        w[p].proc = "exited" =>
            \A k \in ConnIds :
                (conns[k].w = p /\ conns[k].kind = "msg" /\ conns[k].reply = "OK")
                    => k \in Range(w[p].synth)

\* C4 (as stated): shutdown drains: once the generator has exited, every
\* request that was in the request queue when shutdown began has been passed
\* to synthesis, and once the player has exited, every chunk that was in the
\* playback buffer when shutdown began has been passed to playback.
C4_ShutdownDrains ==
    \A p \in Workers :
        /\ w[p].gen = "done" => w[p].drainQueue = {}
        /\ w[p].ply = "done" => w[p].drainBuffer = {}

\* C9 (as stated): the idle monitor sets the shutdown event, and injects the
\* sentinel, only when no request is waiting in the request queue.
C9_IdleShutdownOnlyWhenQueueEmpty ==
    [][\A p \in Workers :
          (\/ w[p].lis = "wait" /\ w'[p].lis = "idle_put"
           \/ w[p].lis = "idle_put" /\ w'[p].lis # "idle_put")
              => Ahead(w[p].queue) = {}]_vars

\* C5 (as stated): once the idle monitor has found the idle threshold
\* exceeded, the worker eventually exits with its PID file and its socket
\* file removed.
C5_IdleShutdownRemovesFilesAndExits ==
    \A p \in Workers :
        w[p].idleFired ~> (w[p].proc = "exited" /\ pidFile # p /\ sockFile # p)

C2_AtMostOneLiveWorker ==
    env.overlap => Cardinality({p \in Workers : Alive(p)}) <= 1

\* C6 (as stated): a call of send_to_queue that began with the files of a
\* killed daemon on disk returns True.
C6_StaleRecoveryReturnsTrue ==
    \A c \in Clients :
        (cl[c].stale # 0 /\ cl[c].pc = "done") => cl[c].result = "True"

\* C6 (amended): when a call of send_to_queue that began with the files of a
\* killed daemon on disk has returned, neither file names that daemon any
\* more and a new daemon has been started; it returned True only on the OK
\* of a daemon started after the killed one, and False only from the last
\* round of the retry loop with none of its connections acknowledged.
C6_StaleRecovery ==
    \A c \in Clients :
        (cl[c].stale # 0 /\ cl[c].pc = "done") =>
            /\ pidFile # cl[c].stale /\ sockFile # cl[c].stale
            /\ \E p \in Workers : p > cl[c].stale /\ w[p].proc # "unborn"
            /\ cl[c].result = "True" =>
                   \E k \in ConnIds : /\ conns[k].cl = c
                                      /\ conns[k].reply = "OK"
                                      /\ conns[k].w > cl[c].stale
            /\ cl[c].result = "False" =>
                   /\ cl[c].attempt = max_retries - 1
                   /\ \A k \in ConnIds : conns[k].cl = c => conns[k].reply # "OK"

\* a call that began with the files of a killed daemon on disk returned True
C6_Witness ==
    \E c \in Clients : cl[c].stale # 0 /\ cl[c].pc = "done" /\ cl[c].result = "True"

\* C10 (as stated): a worker whose bind failed exits, and then worker.pid
\* does not name it.
C10_BindFailureExits ==
    \A p \in Workers :
        w[p].bindFailed ~> (w[p].proc = "exited" /\ pidFile # p)

\* the generated chunks awaiting playback: those in the buffer and the one
\* the generator holds while it is blocked in audio_buffer.put
Awaiting(p) == Chunks(w[p].buffer) + (IF w[p].gen = "put" THEN 1 ELSE 0)

\* C8 (as stated): never more than 3 generated chunks await playback.
C8_AwaitingWithinCapacity ==
    \A p \in Workers : Awaiting(p) <= AUDIO_BUFFER_MAXSIZE

\* C8 (amended): the playback buffer never holds more than 3 items, and with
\* the one chunk the generator may hold while blocked on the full buffer at
\* most 4 generated chunks await playback.
C8_BufferWithinCapacity ==
    \A p \in Workers :
        /\ Len(w[p].buffer) <= AUDIO_BUFFER_MAXSIZE
        /\ Awaiting(p) <= AUDIO_BUFFER_MAXSIZE + 1

\* synthesis ran ahead of playback: the buffer is full of chunks and the
\* generator is blocked with a further chunk
C8_Witness ==
    \E p \in Workers :
        /\ Chunks(w[p].buffer) = AUDIO_BUFFER_MAXSIZE
        /\ w[p].gen = "put"

\* C11 (as stated): when the socket file did not appear within the wait of
\* start_worker, on the path that took the lock or on the path that found it
\* held, start_worker reports the failure to its caller: it returns False or
\* raises.
C11_StartFailureReported ==
    \A c \in Clients :
        (cl[c].started # "none" /\ cl[c].endpoint = "missing")
            => cl[c].started \in {"False", "raised"}

\* connect() to SOCKET_FILE raises FileNotFoundError (no such file) or
\* ConnectionRefusedError (the file is there, nobody listens on it)
EndpointMissing == sockFile = 0
ConnectionRefused == sockFile # 0 /\ ~(Alive(sockFile) /\ w[sockFile].listening)

\* C12 (as stated): a round of the retry loop whose connect fails because the
\* endpoint is missing or the connection is refused goes on, unless it is the
\* last of the max_retries rounds, to cleanup_worker (which removes the PID
\* file and then the socket file) and from there to start_worker and the next
\* round; the last round returns False.
C12_ConnectFailureRestarts ==
    [][\A c \in Clients :
          /\ (/\ cl[c].pc = "connect" /\ cl'[c] # cl[c]
              /\ EndpointMissing \/ ConnectionRefused)
             => IF cl[c].attempt < max_retries - 1
                THEN cl'[c].pc = "cu_pid" /\ cl'[c].attempt = cl[c].attempt + 1
                ELSE cl'[c].pc = "done" /\ cl'[c].result = "False"
          /\ (cl[c].pc = "cu_pid" /\ cl'[c] # cl[c])
             => pidFile' = 0 /\ cl'[c].pc = "cu_sock"
          /\ (cl[c].pc = "cu_sock" /\ cl'[c] # cl[c])
             => sockFile' = 0 /\ cl'[c].pc = "sw_lock"]_vars

\* C13 (as stated): the handler of a request body that is not a valid
\* structured message (a JSON object with text, voice, speed and lang) replies
\* ERROR and goes on to close, and its step leaves the request queue and the
\* last-activity timestamp as they were.
C13_InvalidBodyGetsError ==
    [][\A k \in ConnIds :
          (/\ conns[k].st = "recv" /\ conns'[k].st \notin {"recv", "closed"}
           /\ conns[k].kind # "msg")
          => LET p == conns[k].w IN
             /\ conns'[k].reply = "ERROR" /\ conns'[k].st = "fin"
             /\ w'[p].queue = w[p].queue
             /\ w'[p].idle = w[p].idle]_vars

\* how often connection k's request was put on the request queue of its worker
TimesEnqueued(k) ==
    Cardinality({i \in 1..Len(w[conns[k].w].enq) : w[conns[k].w].enq[i] = k})

\* C14: a handler that parsed its request puts exactly one message on the
\* request queue, then sets the last-activity timestamp, then sends OK, each
\* in a step of its own and in this order; so a connection answered OK has
\* its message enqueued, exactly once.
C14_EnqueuedBeforeOk ==
    /\ [](\A k \in ConnIds :
            (conns[k].kind \in {"msg", "nonobj"}) =>
                /\ conns[k].st \in {"stamp", "reply"} =>
                       TimesEnqueued(k) = 1 /\ conns[k].reply = "none"
                /\ conns[k].reply = "OK" => TimesEnqueued(k) = 1)
    /\ [][\A k \in ConnIds :
            LET p == conns[k].w IN
            /\ (conns[k].st = "recv" /\ conns'[k].st = "stamp")
               => /\ Len(w'[p].queue) = Len(w[p].queue) + 1
                  /\ w'[p].idle = w[p].idle
            /\ (conns[k].st = "stamp" /\ conns'[k].st # "stamp" /\ Alive(p)')
               => /\ conns'[k].st = "reply" /\ w'[p].idle = 0
                  /\ w'[p].queue = w[p].queue
            /\ (conns[k].reply # "OK" /\ conns'[k].reply = "OK")
               => conns[k].st = "reply" /\ w'[p].queue = w[p].queue]_vars

\* a client has received OK for a message, and its connection is closed
C14_Witness ==
    \E k \in ConnIds :
        /\ conns[k].kind = "msg" /\ conns[k].reply = "OK"
        /\ conns[k].st = "closed" /\ TimesEnqueued(k) = 1

\* C15 (as stated): when the daemon closes a connection it accepted, the
\* connection has received a reply, and the reply is OK, ERROR or BUSY.
C15_ClosedWithOneReply ==
    [][\A k \in ConnIds :
          (/\ conns[k].st \notin {"free", "backlog", "closed"}
           /\ conns'[k].st = "closed"
           /\ Alive(conns[k].w)')
          => conns'[k].reply \in {"OK", "ERROR", "BUSY"}]_vars

\* the messages whose synthesis raised: passed to generate_audio, and no
\* chunk of theirs is held by the generator, in the buffer, or played
SynthFailed(p) ==
    {k \in Range(w[p].synth) :
        /\ ~(w[p].gen = "put" /\ w[p].genMsg = k)
        /\ k \notin Range(w[p].buffer)
        /\ k \notin Range(w[p].played)}

\* the pipeline of worker p is at rest: every enqueued message was passed to
\* synthesis, the generator holds nothing, and the buffer is played out
AllProcessed(p) ==
    /\ Range(w[p].enq) \subseteq Range(w[p].synth)
    /\ w[p].gen = "wait"
    /\ w[p].buffer = <<>>
    /\ w[p].ply = "wait"

C18_ContendedStarterOnlyPolls ==
    [][\A c \in Clients :
          (cl[c].ret = "poll" /\ cl'[c] # cl[c])
          => /\ \A p \in Workers : w'[p].proc = w[p].proc
             /\ sockFile' = sockFile
             /\ (pidFile = -1 \/ Alive(pidFile)) => pidFile' = pidFile
             /\ (cl[c].pc = "iwr" /\ Alive(pidFile) /\ sockFile # 0)
                   => cl'[c].pc = "connect" /\ cl'[c].started = "None"]_vars

\* C19: a caller of start_worker that gets the lock calls is_worker_running
\* next; when that check finds the PID file naming a process that runs, the
\* caller goes on to release the lock and to return None, and neither of
\* these steps spawns a process or touches the PID file or the socket file.
C19_LockHolderRechecks ==
    [][\A c \in Clients :
          /\ (cl[c].pc = "sw_lock" /\ lock' = c)
             => cl'[c].pc = "iwr" /\ cl'[c].ret = "sw"
          /\ (/\ cl[c].pc = "iwr" /\ cl[c].ret = "sw" /\ cl'[c] # cl[c]
              /\ Alive(pidFile))
             => /\ cl'[c].pc = "sw_unlock" /\ cl'[c].endpoint = "none"
                /\ pidFile' = pidFile /\ sockFile' = sockFile
                /\ \A p \in Workers : w'[p].proc = w[p].proc
          /\ (/\ cl[c].pc = "sw_unlock" /\ cl[c].endpoint = "none"
              /\ cl'[c] # cl[c])
             => /\ lock = c /\ lock' = 0
                /\ cl'[c].pc = "connect" /\ cl'[c].started = "None"
                /\ pidFile' = pidFile /\ sockFile' = sockFile
                /\ \A p \in Workers : w'[p].proc = w[p].proc]_vars

\* a caller took the lock while another starter's daemon was already
\* running, and has returned from start_worker without waiting for a socket
C19_Witness ==
    \E c \in Clients :
        /\ cl[c].pc = "connect" /\ cl[c].started = "None"
        /\ cl[c].endpoint = "none"
        /\ lock = 0 /\ Alive(pidFile)
        /\ Cardinality({p \in Workers : w[p].proc # "unborn"}) = 1

\* C20: when send_to_queue calls is_worker_running and the PID file names a
\* process that can be signalled, the check returns True and send_to_queue
\* goes on to connect without a call of start_worker; the step takes no
\* lock, spawns no process and leaves the PID file and the socket file as
\* they are.
C20_RunningGoesStraightToConnect ==
    [][\A c \in Clients :
          (/\ cl[c].pc = "iwr" /\ cl[c].ret = "s2q" /\ cl'[c] # cl[c]
           /\ Alive(pidFile))
          => /\ cl'[c].pc = "connect" /\ cl'[c].started = "none"
             /\ lock' = lock
             /\ pidFile' = pidFile /\ sockFile' = sockFile
             /\ \A p \in Workers : w'[p].proc = w[p].proc]_vars

\* a call of send_to_queue found the daemon running and is about to connect
\* for the first time, start_worker not called
C20_Witness ==
    \E c \in Clients :
        /\ cl[c].pc = "connect" /\ cl[c].attempt = 0
        /\ cl[c].started = "none"
        /\ Alive(pidFile)

\* C21: when is_worker_running, called by send_to_queue or by the holder of
\* the startup lock, finds a PID file that names a process that does not run,
\* it removes the file and returns False: send_to_queue goes on to
\* start_worker, and the lock holder goes on to remove the socket file and to
\* spawn.  A PID file that names a dead process is never taken for a live
\* daemon.
C21_StalePidNotTrusted ==
    [][\A c \in Clients :
          /\ (/\ cl[c].pc = "iwr" /\ cl[c].ret \in {"s2q", "sw"}
              /\ cl'[c] # cl[c]
              /\ pidFile \in Workers /\ w[pidFile].proc # "run")
             => cl'[c].pc = "iwr_unlink" /\ cl'[c].ret = cl[c].ret
          /\ (cl[c].pc = "iwr_unlink" /\ cl'[c] # cl[c])
             => /\ pidFile' = 0
                /\ cl[c].ret = "s2q" => cl'[c].pc = "sw_lock"
                /\ cl[c].ret = "sw" => cl'[c].pc = "sw_unlink_sock"
          /\ (cl[c].pc = "iwr" /\ cl'[c].pc \in {"connect", "sw_unlock"})
             => \/ pidFile \in Workers /\ w[pidFile].proc = "run"
                \/ cl[c].ret = "poll"]_vars

\* a call that began with the PID file of a killed daemon on disk has
\* spawned a new daemon, which the PID file now names
C21_Witness ==
    \E c \in Clients :
        /\ cl[c].stale # 0
        /\ pidFile \in Workers /\ pidFile > cl[c].stale
        /\ w[pidFile].proc = "run"

\* the connections send_to_queue of client c has opened
ConnectionsOf(c) == {k \in ConnIds : conns[k].cl = c}

\* the call of client c stands where the code goes on (a spawn, a connect,
\* the timeout of a receive) and the environment of the model has no
\* process, connection or timeout left to give
Starved(c) ==
    \/ cl[c].pc = "sw_spawn" /\ (env.spawns = 0 \/ UnbornWorkers = {})
    \/ /\ cl[c].pc = "connect" /\ Connectable(sockFile)
       /\ (env.conns = 0 \/ FreeConns = {})
    \/ /\ cl[c].pc = "recv" /\ env.timeouts = 0
       /\ conns[cl[c].conn].reply = "none" /\ conns[cl[c].conn].st # "closed"

\* C22: send_to_queue opens one connection per round of its retry loop and
\* runs at most max_retries rounds; a receive that times out ends the round
\* like any other failure, and the last round returns False; a call that
\* returned False either read ERROR or was in its last round; and the calls
\* that have begun return: again and again no call is under way.
C22_SendToQueueTerminates ==
    /\ [](\A c \in Clients :
            /\ cl[c].attempt \in 0..(max_retries - 1)
            /\ Cardinality(ConnectionsOf(c)) <= cl[c].attempt + 1
            /\ (cl[c].pc = "done" /\ cl[c].result = "False")
                  => \/ cl[c].attempt = max_retries - 1
                     \/ \E k \in ConnectionsOf(c) : conns[k].reply = "ERROR")
    /\ [][\A c \in Clients :
            (/\ cl[c].pc = "recv" /\ cl'[c] # cl[c]
             /\ conns[cl[c].conn].reply = "none"
             /\ conns[cl[c].conn].st # "closed")
            => IF cl[c].attempt < max_retries - 1
               THEN cl'[c].pc = "connect" /\ cl'[c].attempt = cl[c].attempt + 1
               ELSE cl'[c].pc = "done" /\ cl'[c].result = "False"]_vars
    /\ []<>(\A c \in Clients :
               cl[c].pc \in {"off", "start", "done"} \/ Starved(c))

\* a call has returned False from the last round of its retry loop
C22_Witness ==
    \E c \in Clients :
        /\ cl[c].pc = "done" /\ cl[c].result = "False"
        /\ cl[c].attempt = max_retries - 1

\* C23: send_to_queue returns True exactly from the receive that reads OK: a
\* receive that reads OK returns True at once, no other step sets the result
\* to True, and a receive that reads ERROR, BUSY or nothing does not; so when
\* a call has returned True, one of its connections was answered OK and its
\* message was put on the request queue.
C23_TrueIffOk ==
    /\ [](\A c \in Clients :
            cl[c].result = "True" =>
                \E k \in ConnectionsOf(c) :
                    conns[k].reply = "OK" /\ TimesEnqueued(k) = 1)
    /\ [][\A c \in Clients :
            /\ (cl'[c].result = "True" /\ cl[c].result # "True")
               => cl[c].pc = "recv" /\ conns[cl[c].conn].reply = "OK"
            /\ (cl[c].pc = "recv" /\ cl'[c] # cl[c])
               => IF conns[cl[c].conn].reply = "OK"
                  THEN cl'[c].pc = "done" /\ cl'[c].result = "True"
                  ELSE cl'[c].result # "True"]_vars

\* a call was answered BUSY in one round and returned True from a later one
C23_Witness ==
    \E c \in Clients :
        /\ cl[c].pc = "done" /\ cl[c].result = "True"
        /\ \E k \in ConnectionsOf(c) : conns[k].reply = "BUSY"

\* the command line run once, in either mode, with the text as an argument
\* or on standard input, with or without a daemon already running; the
\* daemon can be killed and a receive can time out
MaxInput == 3
Inputs == UNION {[1..n -> Chars] : n \in 0..MaxInput}

InitMain ==
    /\ lock = 0
    /\ conns = [k \in ConnIds |-> NoConn]
    /\ \E running \in BOOLEAN :
          /\ pidFile = IF running THEN 1 ELSE 0
          /\ sockFile = IF running THEN 1 ELSE 0
          /\ w = [p \in Workers |-> IF running /\ p = 1 THEN BoundDaemon ELSE Unborn]
    /\ \E queue \in BOOLEAN, arg \in BOOLEAN, text \in Inputs :
          /\ arg => text # <<>>
          /\ cl = [c \in Clients |->
                     IF c = 1
                     THEN [NoClient EXCEPT !.pc = "main", !.queue = queue,
                                           !.argText = IF arg THEN text ELSE <<>>,
                                           !.stdin = IF arg THEN <<>> ELSE text]
                     ELSE NoClient]
    /\ env = [Quiet EXCEPT !.spawns = ColdSpawns, !.conns = ColdConns,
                           !.kills = MaxKills, !.timeouts = MaxTimeouts]

NextMain == \/ \E p \in Workers : \/ socket_listener_bind(p)
                                  \/ socket_listener_admit(p)
                                  \/ Kill(p)
            \/ \E k \in ConnIds : Handler(k)
            \/ \E c \in Clients : ClientAlone(c) \/ main(c)

SpecMain == InitMain /\ [][NextMain]_vars
\* the lines of a text that hold something other than whitespace, each
\* without the whitespace around it, in the order of the text
RECURSIVE NonBlankLines(_, _)
NonBlankLines(s, line) ==
    LET marks == {i \in 1..Len(line) : ~IsSpace(line[i])}
        first == CHOOSE i \in marks : \A j \in marks : i <= j
        last == CHOOSE i \in marks : \A j \in marks : i >= j
        ended == IF marks = {} THEN <<>> ELSE <<SubSeq(line, first, last)>>
    IN  IF s = <<>> THEN ended
        ELSE IF Head(s) = NL THEN ended \o NonBlankLines(Tail(s), <<>>)
        ELSE NonBlankLines(Tail(s), Append(line, Head(s)))

\* the text positions that one of c's connections carried and the daemon
\* acknowledged with OK
Acknowledged(c) == {conns[k].text : k \in {j \in ConnectionsOf(c) : conns[j].reply = "OK"}}

\* C24: in queue mode with the text on standard input, the list of requests
\* is the non-blank input lines in input order; a connection carries the
\* text at the loop's position and none beyond it, later connections carry
\* later or equal positions, and the loop is at position i only when every
\* position before i was acknowledged with OK; the position only moves by
\* one, after a call that returned True; a call that returns False is
\* followed by exit status 1 at that position, after which the client
\* opens no connection; status 0 needs every position acknowledged
C24_QueueModeSubmitsLines ==
    /\ [](\A c \in Clients : cl[c].queue /\ cl[c].pc # "main" =>
            /\ \A k \in ConnectionsOf(c) :
                  /\ conns[k].text \in 1..cl[c].idx
                  /\ \A j \in ConnectionsOf(c) :
                        j < k => conns[j].text <= conns[k].text
            /\ \A i \in 1..(cl[c].idx - 1) : i \in Acknowledged(c)
            /\ cl[c].idx <= Len(cl[c].texts)
            /\ cl[c].exit = 0 =>
                  /\ cl[c].idx = Len(cl[c].texts)
                  /\ \A i \in 1..Len(cl[c].texts) : i \in Acknowledged(c)
            /\ cl[c].pc = "exited" /\ cl[c].result = "False" => cl[c].exit = 1)
    /\ [][\A c \in Clients : cl[c].queue /\ cl'[c] # cl[c] =>
            /\ cl[c].pc = "main" =>
                  cl'[c].texts = IF cl[c].argText # <<>> THEN <<cl[c].argText>>
                                 ELSE NonBlankLines(cl[c].stdin, <<>>)
            /\ cl[c].pc # "main" => cl'[c].texts = cl[c].texts
            /\ cl[c].pc = "exited" => FALSE
            /\ cl[c].pc = "done" /\ cl[c].result = "False" =>
                  cl'[c].pc = "exited" /\ cl'[c].exit = 1 /\ cl'[c].idx = cl[c].idx
            /\ cl'[c].idx # cl[c].idx =>
                  /\ cl'[c].idx = cl[c].idx + 1
                  /\ cl[c].pc = "main" \/ (cl[c].pc = "done" /\ cl[c].result = "True")
            /\ cl'[c].pc = "exited" => \A k \in ConnectionsOf(c) : conns'[k] = conns[k]]_vars

\* the second of two input lines is never submitted: the submission of the
\* first failed after a connection carried it, and the client exited with 1
C24_Witness ==
    \E c \in Clients :
       /\ cl[c].queue /\ cl[c].argText = <<>> /\ Len(cl[c].texts) = 2
       /\ cl[c].pc = "exited" /\ cl[c].exit = 1 /\ cl[c].idx = 1
       /\ \E k \in ConnectionsOf(c) : conns[k].text = 1
\* a process that runs main without --queue
Direct(c) == ~cl[c].queue /\ cl[c].pc \in {"main", "speak", "play", "exited"}

\* C25: a direct-mode process only moves from main to speak_text
\* (synthesis, then playback) and to its exit, and none of its steps
\* changes the PID file, the socket file, the lock, a worker process or a
\* connection; it holds no lock, has spawned no worker and has no connection
C25_DirectModeLeavesDaemonAlone ==
    /\ [](\A c \in Clients : Direct(c) =>
            /\ lock # c
            /\ cl[c].spawned = 0
            /\ ConnectionsOf(c) = {})
    /\ [][\A c \in Clients : Direct(c) /\ cl'[c] # cl[c] =>
            /\ <<cl[c].pc, cl'[c].pc>> \in {<<"main", "speak">>, <<"main", "exited">>,
                                            <<"speak", "play">>, <<"speak", "exited">>,
                                            <<"play", "exited">>}
            /\ UNCHANGED <<pidFile, sockFile, lock, w, conns>>]_vars

\* a direct-mode run has played its text and exited while a daemon is
\* running and recorded, and no connection was ever opened
C25_Witness ==
    \E c \in Clients :
       /\ Direct(c) /\ cl[c].pc = "exited" /\ cl[c].exit = 0
       /\ pidFile = 1 /\ sockFile = 1 /\ w[1].proc = "run" /\ w[1].listening
       /\ \A k \in ConnIds : conns[k] = NoConn
\* C26 (as stated): once the shutdown event is set, the listener, the
\* generator and the player all terminate and worker_process gets past its
\* joins to cleanup_worker.
C26_ShutdownTerminates ==
    (\E p \in Workers : w[p].shutdown)
        ~> (\A p \in Workers : w[p].shutdown =>
               /\ w[p].lis = "done" /\ w[p].gen = "done" /\ w[p].ply = "done"
               /\ w[p].main # "join")
\* a handover: a running daemon is told to stop while one
\* client submits a message and may start the next daemon
InitHandover ==
    /\ pidFile = 1
    /\ sockFile = 1
    /\ lock = 0
    /\ w = [p \in Workers |-> IF p = 1 THEN BoundDaemon ELSE Unborn]
    /\ conns = [k \in ConnIds |-> NoConn]
    /\ cl = [c \in Clients |-> IF c = 1 THEN [NoClient EXCEPT !.pc = "start"]
                                ELSE NoClient]
    /\ env = [Quiet EXCEPT !.spawns = 1, !.conns = ColdConns, !.sigs = MaxSignals]

NextHandover ==
    \/ \E p \in Workers : \/ socket_listener_bind(p)
                          \/ socket_listener_admit(p)
                          \/ socket_listener_close(p)
                          \/ socket_listener_unlink(p)
                          \/ Signalled(p)
                          \/ generator_thread_get(p)
                          \/ generator_thread_stop(p)
                          \/ generator_thread_synth(p)
                          \/ generator_thread_put(p)
                          \/ generator_thread_put_none(p)
                          \/ Player(p)
                          \/ Main(p)
    \/ \E k \in ConnIds : Handler(k)
    \/ \E c \in Clients : \/ send_to_queue_start(c)
                          \/ is_worker_running_check(c)
                          \/ start_worker_lock(c)
                          \/ start_worker_unlink_sock(c)
                          \/ start_worker_spawn(c)
                          \/ start_worker_pid_open(c)
                          \/ start_worker_pid_write(c)
                          \/ start_worker_wait(c)
                          \/ start_worker_unlock(c)
                          \/ cleanup_worker_pid(c)
                          \/ cleanup_worker_sock(c)
                          \/ send_to_queue_connect(c)
                          \/ send_to_queue_not_found(c)
                          \/ send_to_queue_refused(c)
                          \/ send_to_queue_recv(c)

SpecHandover == InitHandover /\ [][NextHandover]_vars
\* C27 (as stated): the socket unlink in the listener's finally block of a
\* daemon that is shutting down, and the two unlinks of its final
\* cleanup_worker, leave a PID file and a socket file of another daemon
\* in place.
C27_ExitingDaemonKeepsNewerFiles ==
    [][\A p \in Workers :
         /\ (w[p].shutdown /\ w[p].lis = "unlink" /\ w'[p].lis = "done"
               /\ sockFile \notin {0, p}) => sockFile' = sockFile
         /\ (w[p].main = "cleanup_pid" /\ w'[p].main = "cleanup_sock"
               /\ pidFile \notin {0, p}) => pidFile' = pidFile
         /\ (w[p].main = "cleanup_sock" /\ w'[p].main = "done"
               /\ sockFile \notin {0, p}) => sockFile' = sockFile]_vars
\* C28 (as stated): while the PID file is being written for a daemon, or
\* names a daemon that runs, no step of a client removes it.
C28_PidFileKeptWhileDaemonRuns ==
    [][(pidFile = -1 \/ (pidFile \in Workers /\ Alive(pidFile))) /\ cl' # cl
          => pidFile' # 0]_vars
\* C29 (as stated): a sentinel is on the request queue only after the
\* shutdown event has been set, and the generator and the player have
\* stopped only after the shutdown event has been set.
C29_SentinelOnlyFromShutdown ==
    \A p \in Workers :
        (0 \in Range(w[p].queue) \/ w[p].gen = "done" \/ w[p].ply = "done")
            => w[p].shutdown
\* C30 (as stated): of the connections that one call of send_to_queue
\* opens, at most one has its message put on a request queue.
C30_EnqueuedAtMostOncePerCall ==
    \A c \in Clients :
        Cardinality({k \in ConnectionsOf(c) : TimesEnqueued(k) > 0}) <= 1
\* the messages that lie on the request queue of p behind a sentinel
BehindSentinel(p) ==
    {w[p].queue[j] : j \in {i \in 1..Len(w[p].queue) :
                               /\ w[p].queue[i] # 0
                               /\ \E h \in 1..(i - 1) : w[p].queue[h] = 0}}

\* C31 (as stated): no connection whose message lies on the request queue
\* behind a shutdown sentinel has been answered OK.
C31_NoOkBehindSentinel ==
    \A p \in Workers : \A k \in BehindSentinel(p) : conns[k].reply # "OK"
\* C32 (as stated): every item that a handler put on the request queue
\* comes from a body that is a message with text, voice, speed and lang,
\* and a body that parses as JSON but is no such message is never answered
\* OK.
C32_OnlyMessagesEnqueued ==
    /\ \A p \in Workers : \A i \in 1..Len(w[p].queue) :
          w[p].queue[i] # 0 => conns[w[p].queue[i]].kind = "msg"
    /\ \A k \in ConnIds :
          ParsesAsJson(conns[k].kind) /\ conns[k].kind # "msg"
              => conns[k].reply # "OK"
\* the admission gate with bodies of every kind: handlers end after OK,
\* after ERROR, and on an exception
InitSlots == InitDaemon([Quiet EXCEPT !.conns = GateConns, !.live = GateConns,
                                      !.kinds = Kinds, !.stalls = TRUE,
                                      !.clock = TRUE])

SpecSlots == InitSlots /\ [][NextGate]_vars

\* C33: in a running daemon the free slots of connection_semaphore plus the
\* handlers in flight are MAX_CONCURRENT_CONNECTIONS; the step that ends a
\* handler frees exactly one slot, whatever the handler answered, and the
\* step that answers BUSY leaves the semaphore as it was
C33_SlotsPlusHandlersConstant ==
    /\ [](\A p \in Workers :
            Alive(p) => w[p].sem + HandlersInFlight(p) = MAX_CONCURRENT_CONNECTIONS)
    /\ [][\A k \in ConnIds : Alive(conns[k].w) /\ Alive(conns[k].w)' =>
            LET p == conns[k].w IN
            /\ (conns[k].st = "fin" /\ conns'[k].st = "closed")
                  => w'[p].sem = w[p].sem + 1
            /\ (conns[k].reply # "BUSY" /\ conns'[k].reply = "BUSY")
                  => w'[p].sem = w[p].sem /\ w[p].sem = 0]_vars

\* a handler whose body could not be decoded has ended without a reply
\* while 23 other handlers were in flight, and its slot is free again
C33_Witness ==
    \E k \in ConnIds :
       LET p == conns[k].w IN
       /\ conns[k].kind = "undecodable" /\ conns[k].st = "closed"
       /\ Alive(p) /\ w[p].stalled = MAX_CONCURRENT_CONNECTIONS - 1
       /\ w[p].sem = 1
\* the callers of start_worker between flock and LOCK_UN
InCriticalSection ==
    {c \in Clients :
        \/ cl[c].ret = "sw" /\ cl[c].pc \in {"iwr", "iwr_unlink"}
        \/ cl[c].pc \in {"sw_unlink_sock", "sw_spawn", "sw_pid_open",
                          "sw_pid_write", "sw_wait", "sw_unlock"}}

\* C34 (as stated): at most one caller of start_worker is between flock and
\* LOCK_UN, and it holds the lock; while one has spawned a daemon and has not
\* finished its wait for the socket file, no step of another client removes
\* the socket file or spawns a process.
C34_OneStarterAtATime ==
    /\ [](/\ Cardinality(InCriticalSection) <= 1
           /\ \A c \in InCriticalSection : lock = c)
    /\ [][\A c \in Clients :
            cl[c].pc \in {"sw_pid_open", "sw_pid_write", "sw_wait"} =>
               \A d \in Clients \ {c} : cl'[d] # cl[d] =>
                  /\ sockFile # 0 => sockFile' # 0
                  /\ \A p \in Workers : w[p].proc = "unborn" => w'[p].proc = "unborn"]_vars
\* C35: the lock is held only by a caller of start_worker that is between
\* flock and LOCK_UN; the step by which a caller leaves start_worker, on
\* each of its paths (a worker was found running, the socket file appeared,
\* the wait ended without it), leaves the lock free, and a caller that found
\* the lock held never holds it
C35_LockReleasedOnReturn ==
    /\ [](\A c \in Clients : lock = c => c \in InCriticalSection)
    /\ [][\A c \in Clients :
            /\ (c \in InCriticalSection /\ cl'[c].pc \notin
                    {"iwr", "iwr_unlink", "sw_unlink_sock", "sw_spawn",
                     "sw_pid_open", "sw_pid_write", "sw_wait", "sw_unlock"})
                  => /\ lock' = 0
                     /\ cl[c].pc = "sw_unlock"
                     /\ cl'[c].started \in {"None", "worker"}
            /\ cl[c].ret = "poll" => lock' # c]_vars

\* a starter has returned from a wait that ended without the socket file,
\* and a later starter holds the lock
C35_Witness ==
    \E c, d \in Clients :
       /\ c # d /\ lock = d
       /\ cl[c].endpoint = "missing"
       /\ cl[c].started = "worker" /\ cl[c].pc = "connect"
\* C36 (as stated): a generator that has taken the sentinel from the
\* request queue eventually puts a sentinel on the playback buffer and
\* exits; that step appends one sentinel behind the chunks in the buffer;
\* from the moment it took the sentinel the generator takes nothing more
\* from the request queue and passes nothing more to synthesis; the player
\* that takes the sentinel exits without playing.
C36_SentinelForwarded ==
    /\ [][\A p \in Workers :
            /\ (w[p].gen = "put_none" /\ w'[p].gen # "put_none" /\ Alive(p)')
                  => w'[p].gen = "done" /\ w'[p].buffer = Append(w[p].buffer, 0)
            /\ w[p].gen \in {"put_none", "done"}
                  => /\ w'[p].synth = w[p].synth
                     /\ Len(w'[p].queue) >= Len(w[p].queue)
                     /\ w'[p].gen \in {"put_none", "done"}
            /\ (w[p].buffer # <<>> /\ Head(w[p].buffer) = 0
                   /\ w'[p].buffer = Tail(w[p].buffer))
                  => w'[p].ply = "done" /\ w'[p].played = w[p].played]_vars
    /\ (\E p \in Workers : w[p].gen = "put_none")
           ~> (\A p \in Workers : w[p].gen # "put_none")
\* C37: whatever the player is doing, a generator of a running daemon that
\* is in synthesis can finish it, one that waits with a request queued can
\* take it, and one that holds a chunk or the sentinel can put it unless the
\* playback buffer is full; and a player that is in playback can finish it
\* whatever the generator is doing
C37_StagesDoNotBlockEachOther ==
    \A p \in Workers : Alive(p) =>
        /\ (w[p].gen = "synth" /\ conns[w[p].genMsg].kind = "msg")
              => ENABLED generator_thread_synth(p)
        /\ (w[p].gen = "wait" /\ w[p].queue # <<>>)
              => ENABLED generator_thread_get(p)
        /\ (w[p].gen = "put" /\ ~ENABLED generator_thread_put(p))
              => Len(w[p].buffer) = AUDIO_BUFFER_MAXSIZE
        /\ (w[p].gen = "put_none" /\ ~ENABLED generator_thread_put_none(p))
              => Len(w[p].buffer) = AUDIO_BUFFER_MAXSIZE
        /\ w[p].ply = "play" => ENABLED player_thread_played(p)

\* the generator is synthesizing the second request while the player is
\* playing the chunk of the first
C37_Witness ==
    \E p \in Workers :
       /\ Alive(p)
       /\ w[p].ply = "play" /\ w[p].plyMsg = 1
       /\ w[p].gen = "synth" /\ w[p].genMsg = 2
\* C38: while handlers of a running daemon are blocked in conn.recv on
\* clients that keep their write side open, a listener in its accept loop
\* with the event clear can take the pending connection (it starts a
\* handler when a slot is free and answers BUSY when none is), and with
\* nothing pending and the idle threshold passed it can run the idle check
C38_ListenerNotBlockedByHandler ==
    \A p \in Workers :
       (Alive(p) /\ w[p].stalled > 0 /\ w[p].lis = "wait" /\ ~w[p].shutdown) =>
          /\ (w[p].backlog # <<>> /\ SlotFree(w[p].sem))
                => ENABLED socket_listener_admit(p)
          /\ (w[p].backlog # <<>> /\ ~SlotFree(w[p].sem))
                => ENABLED socket_listener_busy(p)
          /\ (w[p].backlog = <<>> /\ IdleExpired(w[p].idle))
                => ENABLED socket_listener_timeout(p)

\* with a handler still blocked on its silent client, a later connection
\* was accepted, handled and answered OK, and the idle check has fired
C38_Witness ==
    \E p \in Workers : \E k \in ConnIds :
       /\ w[p].stalled > 0
       /\ conns[k].w = p /\ conns[k].reply = "OK"
       /\ w[p].idleFired
\* the messages of worker p that were taken from the request queue and whose
\* generate_audio call has not returned or raised yet
InSynthesis(p) ==
    {k \in Range(w[p].enq) :
        /\ conns[k].kind = "msg"
        /\ k \notin Range(w[p].queue)
        /\ k \notin Range(w[p].synth)}

\* C39: at most one message of a daemon is in synthesis, and it is the one
\* the generator holds; a playback starts only when the player holds no
\* chunk, one chunk at a time, and the chunk in playback is the one whose
\* playback started last
C39_OneSynthesisOnePlayback ==
    /\ [](\A p \in Workers :
            /\ Cardinality(InSynthesis(p)) <= 1
            /\ \A k \in InSynthesis(p) : w[p].gen = "synth" /\ w[p].genMsg = k
            /\ w[p].ply = "play" =>
                  /\ w[p].played # <<>>
                  /\ w[p].plyMsg = w[p].played[Len(w[p].played)])
    /\ [][\A p \in Workers :
            w'[p].played # w[p].played =>
               /\ w[p].ply = "wait" /\ w'[p].ply = "play"
               /\ Len(w'[p].played) = Len(w[p].played) + 1]_vars

\* one synthesis and one playback are in progress while a further request
\* waits in the request queue and a further chunk waits in the buffer
C39_Witness ==
    \E p \in Workers :
       /\ Alive(p)
       /\ w[p].gen = "synth" /\ InSynthesis(p) = {w[p].genMsg}
       /\ w[p].ply = "play"
       /\ Ahead(w[p].queue) # {} /\ Ahead(w[p].buffer) # {}
====
